---- MODULE Spec2Model ----
(***************************************************************************)
(* A model of microxdg: the XDG base directory resolver of src/lib.rs      *)
(* (Xdg, and the XdgApp of the same file), the XdgApp of src/app.rs with   *)
(* its file and search methods, and the error type of src/error.rs.        *)
(*                                                                         *)
(* The library reads the process environment and, in its search methods,   *)
(* the filesystem (fs); it writes neither.                                 *)
(* An environment value is a sequence of bytes; a byte is written as a     *)
(* one-character string, and BAD stands for a byte that occurs in no valid *)
(* UTF-8 text.  A path (PathBuf) is the sequence of bytes it was built     *)
(* from: the model compares paths byte by byte, which is finer than the    *)
(* component-wise equality of std::path.                                   *)
(***************************************************************************)
EXTENDS Naturals, Sequences, FiniteSets

VARIABLES env, inst, res, writes, fs

vars == <<env, inst, res, writes, fs>>

\* The number of environment modifications (set_var / remove_var) in a run.
MaxWrites == 2

(***************************************************************************)
(* Bytes, values and the environment                                       *)
(***************************************************************************)

\* A byte that makes an OsString invalid unicode (0xF0 0x90 0x80 0x67 in the tests).
BAD == "\\xFF"

VarNames ==
    { "HOME", "USER",
      "XDG_CACHE_HOME", "XDG_CONFIG_HOME", "XDG_DATA_HOME", "XDG_STATE_HOME",
      "XDG_RUNTIME_DIR", "XDG_CONFIG_DIRS", "XDG_DATA_DIRS" }

\* Values given to HOME: empty, relative, absolute, absolute with a trailing
\* separator, invalid unicode.
HomeValues ==
    { <<>>, <<"a">>, <<"/", "h">>, <<"/", "h", "/">>, <<BAD>> }

\* Values given to USER.
UserValues ==
    { <<>>, <<"u">>, <<BAD>> }

\* Values given to XDG_*_HOME and XDG_RUNTIME_DIR: empty, relative, absolute,
\* invalid unicode without and with a leading separator.
DirValues ==
    { <<>>, <<"a">>, <<"/", "a">>, <<BAD>>, <<"/", BAD>> }

\* Values given to XDG_*_DIRS: empty, one absolute path, two absolute paths,
\* the same path twice, a list with a relative segment, a list with two
\* relative segments after an absolute one, invalid unicode in a relative
\* and in an absolute segment.
ListValues ==
    { <<>>, <<"/", "a">>, <<"/", "a", ":", "/", "b">>,
      <<"/", "a", ":", "/", "a">>,
      <<"/", "a", ":", "b">>, <<"/", "a", ":", "b", ":", "c">>,
      <<"/", "a", ":", BAD>>, <<"/", BAD>> }

\* Values given to XDG_*_DIRS that hold an empty segment: between two
\* colons, after a trailing colon, before a leading colon, and before a
\* segment that is not valid unicode.
EmptySegmentValues ==
    { <<"/", "a", ":", ":", "/", "b">>, <<"/", "a", ":">>, <<":", "/", "a">>,
      <<":", BAD>> }

ValuesOf(key) ==
    CASE key = "HOME" -> HomeValues
      [] key = "USER" -> UserValues
      [] key \in {"XDG_CONFIG_DIRS", "XDG_DATA_DIRS"} ->
            ListValues \cup EmptySegmentValues
      [] OTHER -> DirValues

\* An environment entry: unset, or set to a value.
Unset == [set |-> FALSE, val |-> <<>>]
SetTo(v) == [set |-> TRUE, val |-> v]

\* Result<T, E> and Option<T>.
Ok(v) == [tag |-> "Ok", val |-> v]
Err(e) == [tag |-> "Err", err |-> e]
Some(v) == [some |-> TRUE, val |-> v]
None == [some |-> FALSE]

\* std::env::VarError
NotPresent == [kind |-> "NotPresent"]
NotUnicode(v) == [kind |-> "NotUnicode", val |-> v]

\* XdgError (src/error.rs).  src/lib.rs constructs the second variant under
\* its earlier name, EnvVarRelativePath; the fields are the same.
HomeNotFound == [kind |-> "HomeNotFound"]
RelativePath(key, path) ==
    [kind |-> "RelativePath", env_var_key |-> key, path |-> path]
InvalidUnicode(key, val) ==
    [kind |-> "InvalidUnicode", env_var_key |-> key, env_var_val |-> val]

IsUnicode(v) == \A i \in 1..Len(v) : v[i] # BAD

\* std::env::var(key) in environment e.
std_env_var(e, key) ==
    IF ~e[key].set THEN Err(NotPresent)
    ELSE IF IsUnicode(e[key].val) THEN Ok(e[key].val)
    ELSE Err(NotUnicode(e[key].val))

(***************************************************************************)
(* Paths                                                                   *)
(***************************************************************************)

\* Path::is_relative: a unix path is absolute iff it starts with the root.
is_relative(p) == ~(Len(p) > 0 /\ p[1] = "/")

\* PathBuf::push / Path::join: an absolute argument replaces the path;
\* otherwise a separator is added unless the path is empty or ends with one.
join(base, p) ==
    IF ~is_relative(p) THEN p
    ELSE IF Len(base) > 0 /\ base[Len(base)] # "/" THEN base \o <<"/">> \o p
    ELSE base \o p

(***************************************************************************)
(* XdgDir and XdgSysDirs                                                   *)
(***************************************************************************)

XdgDir == {"Cache", "Config", "Data", "State"}

\* A copy-paste slip: State reads the variable of Data.
env_var_copy_paste(dir) ==
    CASE dir = "Cache" -> "XDG_CACHE_HOME"
      [] dir = "Config" -> "XDG_CONFIG_HOME"
      [] dir = "Data" -> "XDG_DATA_HOME"
      [] dir = "State" -> "XDG_DATA_HOME"

env_var(dir) ==
    CASE dir = "Cache" -> "XDG_CACHE_HOME"
      [] dir = "Config" -> "XDG_CONFIG_HOME"
      [] dir = "Data" -> "XDG_DATA_HOME"
      [] dir = "State" -> "XDG_STATE_HOME"

fallback(dir) ==
    CASE dir = "Cache" -> <<".", "c", "a", "c", "h", "e">>
      [] dir = "Config" -> <<".", "c", "o", "n", "f", "i", "g">>
      [] dir = "Data" -> <<".", "l", "o", "c", "a", "l", "/", "s", "h", "a", "r", "e">>
      [] dir = "State" -> <<".", "l", "o", "c", "a", "l", "/", "s", "t", "a", "t", "e">>

XdgSysDirs == {"Config", "Data"}

sys_env_var(dirs) ==
    CASE dirs = "Config" -> "XDG_CONFIG_DIRS"
      [] dirs = "Data" -> "XDG_DATA_DIRS"

\* The data fallbacks in the wrong order of preference.
sys_fallback_swapped(dirs) ==
    CASE dirs = "Config" -> << <<"/", "e", "t", "c", "/", "x", "d", "g">> >>
      [] dirs = "Data" ->
            << <<"/", "u", "s", "r", "/", "s", "h", "a", "r", "e">>,
               <<"/", "u", "s", "r", "/", "l", "o", "c", "a", "l", "/", "s", "h", "a", "r", "e">> >>

sys_fallback(dirs) ==
    CASE dirs = "Config" -> << <<"/", "e", "t", "c", "/", "x", "d", "g">> >>
      [] dirs = "Data" ->
            << <<"/", "u", "s", "r", "/", "l", "o", "c", "a", "l", "/", "s", "h", "a", "r", "e">>,
               <<"/", "u", "s", "r", "/", "s", "h", "a", "r", "e">> >>

(***************************************************************************)
(* Xdg                                                                     *)
(***************************************************************************)

new_from_string(home) == [home |-> home]

\* Xdg::new in environment e.
new(e) ==
    IF std_env_var(e, "HOME").tag = "Ok"
    THEN Ok(new_from_string(std_env_var(e, "HOME").val))
    ELSE IF std_env_var(e, "USER").tag = "Ok"
    THEN Ok(new_from_string(<<"/", "h", "o", "m", "e", "/">> \o std_env_var(e, "USER").val))
    ELSE Err(HomeNotFound)

\* The home directory read from HOME again at each call.
home_reread(self) ==
    IF std_env_var(env, "HOME").tag = "Ok" THEN env["HOME"].val ELSE self.home

home(self) == self.home

\* The check for a relative path left out.
validate_path_unchecked(env_var_key, env_var_val) == Ok(env_var_val)

\* An empty path let through: only a non-empty relative path is an error.
validate_path_empty_ok(env_var_key, env_var_val) ==
    IF env_var_val # <<>> /\ is_relative(env_var_val)
    THEN Err(RelativePath(env_var_key, env_var_val))
    ELSE Ok(env_var_val)

validate_path(env_var_key, env_var_val) ==
    IF is_relative(env_var_val)
    THEN Err(RelativePath(env_var_key, env_var_val))
    ELSE Ok(env_var_val)

\* The guard on an empty value left out: an empty value is validated.
get_path_empty_is_set(self, e, dir) ==
    LET env_var_key == env_var(dir)
        r == std_env_var(e, env_var_key)
    IN  IF r.tag = "Ok" THEN validate_path(env_var_key, r.val)
        ELSE IF r.tag = "Err" /\ r.err.kind = "NotUnicode"
        THEN Err(InvalidUnicode(env_var_key, r.err.val))
        ELSE Ok(join(self.home, fallback(dir)))

\* The fallback computed from HOME as it is when the method is called: with
\* HOME not readable, the method fails for want of a home directory.
get_path_rereads_home(self, e, dir) ==
    LET env_var_key == env_var(dir)
        r == std_env_var(e, env_var_key)
    IN  IF r.tag = "Ok" /\ r.val # <<>> THEN validate_path(env_var_key, r.val)
        ELSE IF r.tag = "Err" /\ r.err.kind = "NotUnicode"
        THEN Err(InvalidUnicode(env_var_key, r.err.val))
        ELSE IF std_env_var(e, "HOME").tag = "Ok"
        THEN Ok(join(std_env_var(e, "HOME").val, fallback(dir)))
        ELSE Err(HomeNotFound)

\* A relative value in the variable of any kind fails the call, whichever
\* kind is asked for.
get_path_checks_all(self, e, dir) ==
    LET env_var_key == env_var(dir)
        r == std_env_var(e, env_var_key)
        malformed == {d \in XdgDir :
                        /\ std_env_var(e, env_var(d)).tag = "Ok"
                        /\ std_env_var(e, env_var(d)).val # <<>>
                        /\ is_relative(std_env_var(e, env_var(d)).val)}
    IN  IF malformed # {}
        THEN LET d == CHOOSE d \in malformed : TRUE
             IN  Err(RelativePath(env_var(d), std_env_var(e, env_var(d)).val))
        ELSE IF r.tag = "Ok" /\ r.val # <<>> THEN validate_path(env_var_key, r.val)
        ELSE IF r.tag = "Err" /\ r.err.kind = "NotUnicode"
        THEN Err(InvalidUnicode(env_var_key, r.err.val))
        ELSE Ok(join(self.home, fallback(dir)))

\* A result that sticks: once a call for the variable is in the log of the
\* calls, later calls return what that call returned.
get_path_sticky(self, e, dir) ==
    LET env_var_key == env_var(dir)
        r == std_env_var(e, env_var_key)
    IN  IF \E i \in 1..Len(res) : res[i].key = env_var_key
        THEN res[CHOOSE i \in 1..Len(res) : res[i].key = env_var_key].val
        ELSE IF r.tag = "Ok" /\ r.val # <<>> THEN validate_path(env_var_key, r.val)
        ELSE IF r.tag = "Err" /\ r.err.kind = "NotUnicode"
        THEN Err(InvalidUnicode(env_var_key, r.err.val))
        ELSE Ok(join(self.home, fallback(dir)))

get_path(self, e, dir) ==
    LET env_var_key == env_var(dir)
        r == std_env_var(e, env_var_key)
    IN  IF r.tag = "Ok" /\ r.val # <<>> THEN validate_path(env_var_key, r.val)
        ELSE IF r.tag = "Err" /\ r.err.kind = "NotUnicode"
        THEN Err(InvalidUnicode(env_var_key, r.err.val))
        ELSE Ok(join(self.home, fallback(dir)))

cache(self, e) == get_path(self, e, "Cache")

config(self, e) == get_path(self, e, "Config")

data(self, e) == get_path(self, e, "Data")

state(self, e) == get_path(self, e, "State")

\* The runtime directory given a home-derived fallback, like the others.
runtime_with_fallback(self, e) ==
    LET r == std_env_var(e, "XDG_RUNTIME_DIR")
    IN  IF r.tag = "Ok" /\ r.val # <<>>
        THEN LET v == validate_path("XDG_RUNTIME_DIR", r.val)
             IN  IF v.tag = "Ok" THEN Ok(Some(v.val)) ELSE v
        ELSE IF r.tag = "Err" /\ r.err.kind = "NotUnicode"
        THEN Err(InvalidUnicode("XDG_RUNTIME_DIR", r.err.val))
        ELSE Ok(Some(join(self.home, <<".", "r", "u", "n">>)))

runtime(self, e) ==
    LET r == std_env_var(e, "XDG_RUNTIME_DIR")
    IN  IF r.tag = "Ok" /\ r.val # <<>>
        THEN LET v == validate_path("XDG_RUNTIME_DIR", r.val)
             IN  IF v.tag = "Ok" THEN Ok(Some(v.val)) ELSE v
        ELSE IF r.tag = "Err" /\ r.err.kind = "NotUnicode"
        THEN Err(InvalidUnicode("XDG_RUNTIME_DIR", r.err.val))
        ELSE Ok(None)

\* The executable directory derived from XDG_DATA_HOME when that is set.
exec_from_data(self) ==
    IF std_env_var(env, "XDG_DATA_HOME").tag = "Ok" /\ env["XDG_DATA_HOME"].val # <<>>
    THEN join(env["XDG_DATA_HOME"].val, <<".", ".", "/", "b", "i", "n">>)
    ELSE join(self.home, <<".", "l", "o", "c", "a", "l", "/", "b", "i", "n">>)

exec(self) == join(self.home, <<".", "l", "o", "c", "a", "l", "/", "b", "i", "n">>)

\* str::split(':'): the segments between the separators, empty ones included.
RECURSIVE split(_)
split(s) ==
    IF \E i \in 1..Len(s) : s[i] = ":"
    THEN LET i == CHOOSE j \in 1..Len(s) :
                    /\ s[j] = ":"
                    /\ \A m \in 1..(j - 1) : s[m] # ":"
         IN  <<SubSeq(s, 1, i - 1)>> \o split(SubSeq(s, i + 1, Len(s)))
    ELSE <<s>>

\* Iterator::collect into Result<Vec<_>, _>: the first error in order, or
\* the vector of all values.
\* The errors gathered to the end of the list: the last one is returned.
collect_last_error(results) ==
    IF \E i \in 1..Len(results) : results[i].tag = "Err"
    THEN results[CHOOSE i \in 1..Len(results) :
                    /\ results[i].tag = "Err"
                    /\ \A m \in (i + 1)..Len(results) : results[m].tag = "Ok"]
    ELSE Ok([i \in 1..Len(results) |-> results[i].val])

collect(results) ==
    IF \E i \in 1..Len(results) : results[i].tag = "Err"
    THEN results[CHOOSE i \in 1..Len(results) :
                    /\ results[i].tag = "Err"
                    /\ \A m \in 1..(i - 1) : results[m].tag = "Ok"]
    ELSE Ok([i \in 1..Len(results) |-> results[i].val])

\* The system-wide list made to depend on the home directory: it fails when
\* neither HOME nor USER can be read.
get_sys_paths_needs_home(e, dirs) ==
    LET env_var_key == sys_env_var(dirs)
        r == std_env_var(e, env_var_key)
    IN  IF std_env_var(e, "HOME").tag = "Err" /\ std_env_var(e, "USER").tag = "Err"
        THEN Err(HomeNotFound)
        ELSE IF r.tag = "Ok" /\ r.val # <<>>
        THEN LET segs == split(r.val)
             IN  collect([i \in 1..Len(segs) |-> validate_path(env_var_key, segs[i])])
        ELSE IF r.tag = "Err" /\ r.err.kind = "NotUnicode"
        THEN Err(InvalidUnicode(env_var_key, r.err.val))
        ELSE Ok(sys_fallback(dirs))

\* The arm for invalid unicode left out: such a value falls back.
get_sys_paths_no_unicode_arm(e, dirs) ==
    LET env_var_key == sys_env_var(dirs)
        r == std_env_var(e, env_var_key)
    IN  IF r.tag = "Ok" /\ r.val # <<>>
        THEN LET segs == split(r.val)
             IN  collect([i \in 1..Len(segs) |-> validate_path(env_var_key, segs[i])])
        ELSE Ok(sys_fallback(dirs))

\* The segments collected without repetitions, as a set of directories
\* would be.
get_sys_paths_no_repeats(e, dirs) ==
    LET env_var_key == sys_env_var(dirs)
        r == std_env_var(e, env_var_key)
    IN  IF r.tag = "Ok" /\ r.val # <<>>
        THEN LET segs == split(r.val)
                 K == {i \in 1..Len(segs) : \A j \in 1..(i - 1) : segs[j] # segs[i]}
                 firsts == [n \in 1..Cardinality(K) |->
                              segs[CHOOSE i \in K : Cardinality({j \in K : j <= i}) = n]]
             IN  collect([i \in 1..Len(firsts) |-> validate_path(env_var_key, firsts[i])])
        ELSE IF r.tag = "Err" /\ r.err.kind = "NotUnicode"
        THEN Err(InvalidUnicode(env_var_key, r.err.val))
        ELSE Ok(sys_fallback(dirs))

get_sys_paths(e, dirs) ==
    LET env_var_key == sys_env_var(dirs)
        r == std_env_var(e, env_var_key)
    IN  IF r.tag = "Ok" /\ r.val # <<>>
        THEN LET segs == split(r.val)
             IN  collect([i \in 1..Len(segs) |-> validate_path(env_var_key, segs[i])])
        ELSE IF r.tag = "Err" /\ r.err.kind = "NotUnicode"
        THEN Err(InvalidUnicode(env_var_key, r.err.val))
        ELSE Ok(sys_fallback(dirs))

sys_config(e) == get_sys_paths(e, "Config")

sys_data(e) == get_sys_paths(e, "Data")

(***************************************************************************)
(* XdgApp (src/lib.rs): an Xdg and an application name                     *)
(***************************************************************************)

\* The application names instances are bound to.
AppNames == { <<"n">> }

XdgApp_new(e, app_name) ==
    IF new(e).tag = "Ok"
    THEN Ok([xdg |-> new(e).val, name |-> app_name])
    ELSE new(e)

new_app(e, app_name) == XdgApp_new(e, app_name)

from_xdg(xdg, app_name) == [xdg |-> xdg, name |-> app_name]

XdgApp_home(self) == home(self.xdg)

XdgApp_cache(self, e) == cache(self.xdg, e)

XdgApp_config(self, e) == config(self.xdg, e)

XdgApp_data(self, e) == data(self.xdg, e)

XdgApp_state(self, e) == state(self.xdg, e)

XdgApp_runtime(self, e) == runtime(self.xdg, e)

XdgApp_exec(self) == exec(self.xdg)

XdgApp_sys_config(e) == sys_config(e)

XdgApp_sys_data(e) == sys_data(e)

(***************************************************************************)
(* XdgApp (src/lib.rs): the subdirectories of the application              *)
(***************************************************************************)

\* The application name is not appended.
append_app_name_left_out(self, path) == path

append_app_name(self, path) == join(path, self.name)

app_cache(self, e) ==
    IF cache(self.xdg, e).tag = "Ok"
    THEN Ok(append_app_name(self, cache(self.xdg, e).val))
    ELSE cache(self.xdg, e)

app_config(self, e) ==
    IF config(self.xdg, e).tag = "Ok"
    THEN Ok(append_app_name(self, config(self.xdg, e).val))
    ELSE config(self.xdg, e)

app_data(self, e) ==
    IF data(self.xdg, e).tag = "Ok"
    THEN Ok(append_app_name(self, data(self.xdg, e).val))
    ELSE data(self.xdg, e)

app_state(self, e) ==
    IF state(self.xdg, e).tag = "Ok"
    THEN Ok(append_app_name(self, state(self.xdg, e).val))
    ELSE state(self.xdg, e)

\* The application name is appended to the first directory only.
append_app_name_each_first_only(self, paths) ==
    [i \in 1..Len(paths) |-> IF i = 1 THEN join(paths[i], self.name) ELSE paths[i]]

append_app_name_each(self, paths) ==
    [i \in 1..Len(paths) |-> join(paths[i], self.name)]

app_sys_config(self, e) ==
    IF XdgApp_sys_config(e).tag = "Ok"
    THEN Ok(append_app_name_each(self, XdgApp_sys_config(e).val))
    ELSE XdgApp_sys_config(e)

app_sys_data(self, e) ==
    IF XdgApp_sys_data(e).tag = "Ok"
    THEN Ok(append_app_name_each(self, XdgApp_sys_data(e).val))
    ELSE XdgApp_sys_data(e)

(***************************************************************************)
(* The Xdg that src/app.rs is written against.  src/app.rs is a later      *)
(* draft of XdgApp; the methods of Xdg it calls are in no file of src/     *)
(* and are modelled here from sections 4.2 to 4.5 of spec.md.              *)
(***************************************************************************)

\* Append::append(path, segment): the path with the segment pushed.
append(path, segment) == join(path, segment)

\* Xdg::get_dir_path (spec.md 4.2).
get_dir_path(self, e, dir) ==
    LET env_var_key == env_var(dir)
    IN  IF ~e[env_var_key].set \/ e[env_var_key].val = <<>>
        THEN Ok(join(self.home, fallback(dir)))
        ELSE IF ~IsUnicode(e[env_var_key].val)
        THEN Err(InvalidUnicode(env_var_key, e[env_var_key].val))
        ELSE IF is_relative(e[env_var_key].val)
        THEN Err(RelativePath(env_var_key, e[env_var_key].val))
        ELSE Ok(e[env_var_key].val)

\* Xdg::get_env_var (spec.md 4.3, steps 1 to 3): the value of a variable
\* that is set and not empty.
get_env_var(e, env_var_key) ==
    IF ~e[env_var_key].set \/ e[env_var_key].val = <<>> THEN Ok(None)
    ELSE IF ~IsUnicode(e[env_var_key].val)
    THEN Err(InvalidUnicode(env_var_key, e[env_var_key].val))
    ELSE Ok(Some(e[env_var_key].val))

\* Xdg::iter_sys_dir_paths (spec.md 4.3, step 4): each segment of the list,
\* validated, in order.
iter_sys_dir_paths(env_var_key, env_var_val) ==
    LET segs == split(env_var_val)
    IN  [i \in 1..Len(segs) |->
            IF is_relative(segs[i])
            THEN Err(RelativePath(env_var_key, segs[i]))
            ELSE Ok(segs[i])]

\* XdgDir::to_sys (spec.md 4.5): Config and Data have a system-wide
\* counterpart, Cache and State have none.
to_sys(dir) ==
    CASE dir = "Config" -> Some("Config")
      [] dir = "Data" -> Some("Data")
      [] OTHER -> None

\* Path::is_file on filesystem f.
\* Path::exists in place of Path::is_file: a directory counts.
is_file_or_dir(f, path) == path \in f.files \cup f.dirs

is_file(f, path) == path \in f.files

\* The last element that satisfies the predicate, as Iterator::rfind.
find_last(items, p) ==
    IF \E i \in 1..Len(items) : p[i]
    THEN Some(items[CHOOSE i \in 1..Len(items) :
                       /\ p[i]
                       /\ \A m \in (i + 1)..Len(items) : ~p[m]])
    ELSE None

\* Iterator::find: the first element that satisfies the predicate, where
\* p[i] is the value of the predicate on items[i].
find(items, p) ==
    IF \E i \in 1..Len(items) : p[i]
    THEN Some(items[CHOOSE i \in 1..Len(items) :
                       /\ p[i]
                       /\ \A m \in 1..(i - 1) : ~p[m]])
    ELSE None

\* Option<Result<T, E>>::transpose
transpose(option) ==
    IF ~option.some THEN Ok(None)
    ELSE IF option.val.tag = "Ok" THEN Ok(Some(option.val.val))
    ELSE option.val

\* Xdg::cache_file .. Xdg::state_file (spec.md 4.4): the directory of the
\* kind with the file appended.
get_file_path(self, e, dir, file) ==
    LET r == get_dir_path(self, e, dir)
    IN  IF r.tag = "Ok" THEN Ok(append(r.val, file)) ELSE r

\* Xdg::sys_config / Xdg::sys_data of the later draft (spec.md 4.3).
get_sys_dir_paths(e, dirs) ==
    LET env_var_key == sys_env_var(dirs)
        r == get_env_var(e, env_var_key)
    IN  IF r.tag = "Err" THEN r
        ELSE IF r.val.some
        THEN collect(iter_sys_dir_paths(env_var_key, r.val.val))
        ELSE Ok(sys_fallback(dirs))

\* Xdg::search_cache_file .. Xdg::search_state_file (spec.md 4.5): the
\* user-specific candidate, then, for Config and Data, the candidates of the
\* system-wide list in order.
search_file(self, e, f, dir, file) ==
    LET usr == get_file_path(self, e, dir, file)
    IN  IF usr.tag = "Err" THEN usr
        ELSE IF is_file(f, usr.val) THEN Ok(Some(usr.val))
        ELSE IF to_sys(dir).some
        THEN LET sys == get_sys_dir_paths(e, to_sys(dir).val)
             IN  IF sys.tag = "Err" THEN sys
                 ELSE Ok(find([i \in 1..Len(sys.val) |-> append(sys.val[i], file)],
                              [i \in 1..Len(sys.val) |->
                                  is_file(f, append(sys.val[i], file))]))
        ELSE Ok(None)

(***************************************************************************)
(* XdgApp (src/app.rs)                                                     *)
(***************************************************************************)

get_app_dir_path(self, e, dir) ==
    LET r == get_dir_path(self.xdg, e, dir)
    IN  IF r.tag = "Ok" THEN Ok(append(r.val, self.name)) ELSE r

get_app_sys_dir_paths(self, e, dirs) ==
    LET env_var_key == sys_env_var(dirs)
        r == get_env_var(e, env_var_key)
    IN  IF r.tag = "Err" THEN r
        ELSE IF r.val.some
        THEN LET results == iter_sys_dir_paths(env_var_key, r.val.val)
             IN  collect([i \in 1..Len(results) |->
                            IF results[i].tag = "Ok"
                            THEN Ok(append(results[i].val, self.name))
                            ELSE results[i]])
        ELSE Ok([i \in 1..Len(sys_fallback(dirs)) |->
                    append(sys_fallback(dirs)[i], self.name)])

\* The two segments appended in the wrong order: the file, then the name.
get_app_file_path_name_last(self, e, dir, file) ==
    LET r == get_dir_path(self.xdg, e, dir)
    IN  IF r.tag = "Ok" THEN Ok(append(append(r.val, file), self.name)) ELSE r

get_app_file_path(self, e, dir, file) ==
    LET r == get_dir_path(self.xdg, e, dir)
    IN  IF r.tag = "Ok" THEN Ok(append(append(r.val, self.name), file)) ELSE r

search_app_usr_file(self, e, f, dir, file) ==
    LET r == get_dir_path(self.xdg, e, dir)
    IN  IF r.tag = "Ok"
        THEN LET path == join(join(r.val, self.name), file)
             IN  Ok(IF is_file(f, path) THEN Some(path) ELSE None)
        ELSE r

search_app_sys_file(self, e, f, dirs, file) ==
    LET env_var_key == sys_env_var(dirs)
        r == get_env_var(e, env_var_key)
    IN  IF r.tag = "Err" THEN r
        ELSE IF r.val.some
        THEN LET results == iter_sys_dir_paths(env_var_key, r.val.val)
                 paths == [i \in 1..Len(results) |->
                             IF results[i].tag = "Ok"
                             THEN Ok(append(append(results[i].val, self.name), file))
                             ELSE results[i]]
             IN  transpose(find(paths,
                                [i \in 1..Len(paths) |->
                                    paths[i].tag = "Ok" /\ is_file(f, paths[i].val)]))
        ELSE LET paths == [i \in 1..Len(sys_fallback(dirs)) |->
                             append(append(sys_fallback(dirs)[i], self.name), file)]
             IN  Ok(find(paths, [i \in 1..Len(paths) |-> is_file(f, paths[i])]))

\* Every kind given a system-wide list: Cache and State search the list of
\* Data.
search_app_file_all_kinds(self, e, f, dir, file) ==
    LET usr == search_app_usr_file(self, e, f, dir, file)
        sys == search_app_sys_file(self, e, f,
                   IF to_sys(dir).some THEN to_sys(dir).val ELSE "Data", file)
    IN  IF usr.tag = "Err" THEN usr
        ELSE IF usr.val.some THEN Ok(Some(usr.val.val))
        ELSE IF sys.tag = "Err" THEN sys
        ELSE IF sys.val.some THEN Ok(Some(sys.val.val))
        ELSE Ok(None)

\* The system-wide list read and validated before anything is looked up: a
\* malformed list is an error also when the user-specific candidate exists.
search_app_file_validates_first(self, e, f, dir, file) ==
    LET usr == search_app_usr_file(self, e, f, dir, file)
        list == IF to_sys(dir).some THEN get_sys_dir_paths(e, to_sys(dir).val)
                ELSE Ok(<<>>)
    IN  IF list.tag = "Err" THEN list
        ELSE IF usr.tag = "Err" THEN usr
        ELSE IF usr.val.some THEN Ok(Some(usr.val.val))
        ELSE IF to_sys(dir).some
        THEN LET sys == search_app_sys_file(self, e, f, to_sys(dir).val, file)
             IN  IF sys.tag = "Err" THEN sys
                 ELSE IF sys.val.some THEN Ok(Some(sys.val.val))
                 ELSE Ok(None)
        ELSE Ok(None)

\* The system-wide candidates looked up before the user-specific one.
search_app_file_sys_first(self, e, f, dir, file) ==
    LET sys == IF to_sys(dir).some
               THEN search_app_sys_file(self, e, f, to_sys(dir).val, file)
               ELSE Ok(None)
        usr == search_app_usr_file(self, e, f, dir, file)
    IN  IF sys.tag = "Ok" /\ sys.val.some THEN sys
        ELSE IF usr.tag = "Err" THEN usr
        ELSE IF usr.val.some THEN Ok(Some(usr.val.val))
        ELSE sys

search_app_file(self, e, f, dir, file) ==
    LET usr == search_app_usr_file(self, e, f, dir, file)
    IN  IF usr.tag = "Err" THEN usr
        ELSE IF usr.val.some THEN Ok(Some(usr.val.val))
        ELSE IF to_sys(dir).some
        THEN LET sys == search_app_sys_file(self, e, f, to_sys(dir).val, file)
             IN  IF sys.tag = "Err" THEN sys
                 ELSE IF sys.val.some THEN Ok(Some(sys.val.val))
                 ELSE Ok(None)
        ELSE Ok(None)

(***************************************************************************)
(* The state machine: the environment is modified, instances are           *)
(* constructed, and methods are called on the instance at hand.  res is    *)
(* the result of the last call made since the environment last changed.    *)
(***************************************************************************)

\* The filesystem as Path::is_file sees it: the paths that name a regular
\* file and the paths that name a directory.
NoFiles == [files |-> {}, dirs |-> {}]

NoInstance == [type |-> "none", xdg |-> [home |-> <<>>], name |-> <<>>]
XdgInstance(xdg) == [type |-> "Xdg", xdg |-> xdg, name |-> <<>>]
AppInstance(app) == [type |-> "XdgApp", xdg |-> app.xdg, name |-> app.name]

\* The XdgApp value of an instance of type XdgApp.
AsApp(i) == [xdg |-> i.xdg, name |-> i.name]

Returned(op, val) == [op |-> op, val |-> val]

Init ==
    /\ env = [k \in VarNames |-> Unset]
    /\ inst = NoInstance
    /\ res = [op |-> "none"]
    /\ writes = 0
    /\ fs = NoFiles

\* std::env::set_var(key, v)
SetVar ==
    /\ writes < MaxWrites
    /\ \E key \in VarNames : \E v \in ValuesOf(key) :
          env' = [env EXCEPT ![key] = SetTo(v)]
    /\ writes' = writes + 1
    /\ res' = [op |-> "none"]
    /\ UNCHANGED <<inst, fs>>

\* std::env::remove_var(key)
RemoveVar ==
    /\ writes < MaxWrites
    /\ \E key \in VarNames :
          /\ env[key].set
          /\ env' = [env EXCEPT ![key] = Unset]
    /\ writes' = writes + 1
    /\ res' = [op |-> "none"]
    /\ UNCHANGED <<inst, fs>>

\* let xdg = Xdg::new()?
Call_new ==
    /\ res' = Returned("Xdg::new", new(env))
    /\ inst' = IF new(env).tag = "Ok" THEN XdgInstance(new(env).val) ELSE inst
    /\ UNCHANGED <<env, writes, fs>>

\* let xdg = Xdg::new_app(app_name)?
Call_new_app ==
    /\ \E n \in AppNames :
          /\ res' = Returned("Xdg::new_app", new_app(env, n))
          /\ inst' = IF new_app(env, n).tag = "Ok"
                     THEN AppInstance(new_app(env, n).val) ELSE inst
    /\ UNCHANGED <<env, writes, fs>>

\* let xdg = XdgApp::new(app_name)?
Call_XdgApp_new ==
    /\ \E n \in AppNames :
          /\ res' = Returned("XdgApp::new", XdgApp_new(env, n))
          /\ inst' = IF XdgApp_new(env, n).tag = "Ok"
                     THEN AppInstance(XdgApp_new(env, n).val) ELSE inst
    /\ UNCHANGED <<env, writes, fs>>

\* let xdg = XdgApp::from_xdg(xdg, app_name)
Call_from_xdg ==
    /\ inst.type = "Xdg"
    /\ \E n \in AppNames :
          /\ res' = Returned("XdgApp::from_xdg", Ok(from_xdg(inst.xdg, n)))
          /\ inst' = AppInstance(from_xdg(inst.xdg, n))
    /\ UNCHANGED <<env, writes, fs>>

Call_home ==
    /\ inst.type = "Xdg"
    /\ res' = Returned("Xdg::home", home(inst.xdg))
    /\ UNCHANGED <<env, inst, writes, fs>>

\* cache() that moves the home directory out of the instance it is called on.
Call_cache_takes_home ==
    /\ inst.type = "Xdg"
    /\ res' = Returned("Xdg::cache", cache(inst.xdg, env))
    /\ inst' = [inst EXCEPT !.xdg = new_from_string(<<>>)]
    /\ UNCHANGED <<env, writes, fs>>

Call_cache ==
    /\ inst.type = "Xdg"
    /\ res' = Returned("Xdg::cache", cache(inst.xdg, env))
    /\ UNCHANGED <<env, inst, writes, fs>>

Call_config ==
    /\ inst.type = "Xdg"
    /\ res' = Returned("Xdg::config", config(inst.xdg, env))
    /\ UNCHANGED <<env, inst, writes, fs>>

Call_data ==
    /\ inst.type = "Xdg"
    /\ res' = Returned("Xdg::data", data(inst.xdg, env))
    /\ UNCHANGED <<env, inst, writes, fs>>

Call_state ==
    /\ inst.type = "Xdg"
    /\ res' = Returned("Xdg::state", state(inst.xdg, env))
    /\ UNCHANGED <<env, inst, writes, fs>>

Call_runtime ==
    /\ inst.type = "Xdg"
    /\ res' = Returned("Xdg::runtime", runtime(inst.xdg, env))
    /\ UNCHANGED <<env, inst, writes, fs>>

Call_exec ==
    /\ inst.type = "Xdg"
    /\ res' = Returned("Xdg::exec", exec(inst.xdg))
    /\ UNCHANGED <<env, inst, writes, fs>>

Call_sys_config ==
    /\ inst.type = "Xdg"
    /\ res' = Returned("Xdg::sys_config", sys_config(env))
    /\ UNCHANGED <<env, inst, writes, fs>>

Call_sys_data ==
    /\ inst.type = "Xdg"
    /\ res' = Returned("Xdg::sys_data", sys_data(env))
    /\ UNCHANGED <<env, inst, writes, fs>>

Call_XdgApp_home ==
    /\ inst.type = "XdgApp"
    /\ res' = Returned("XdgApp::home", XdgApp_home(AsApp(inst)))
    /\ UNCHANGED <<env, inst, writes, fs>>

Call_XdgApp_cache ==
    /\ inst.type = "XdgApp"
    /\ res' = Returned("XdgApp::cache", XdgApp_cache(AsApp(inst), env))
    /\ UNCHANGED <<env, inst, writes, fs>>

Call_XdgApp_config ==
    /\ inst.type = "XdgApp"
    /\ res' = Returned("XdgApp::config", XdgApp_config(AsApp(inst), env))
    /\ UNCHANGED <<env, inst, writes, fs>>

Call_XdgApp_data ==
    /\ inst.type = "XdgApp"
    /\ res' = Returned("XdgApp::data", XdgApp_data(AsApp(inst), env))
    /\ UNCHANGED <<env, inst, writes, fs>>

Call_XdgApp_state ==
    /\ inst.type = "XdgApp"
    /\ res' = Returned("XdgApp::state", XdgApp_state(AsApp(inst), env))
    /\ UNCHANGED <<env, inst, writes, fs>>

Call_XdgApp_runtime ==
    /\ inst.type = "XdgApp"
    /\ res' = Returned("XdgApp::runtime", XdgApp_runtime(AsApp(inst), env))
    /\ UNCHANGED <<env, inst, writes, fs>>

Call_XdgApp_exec ==
    /\ inst.type = "XdgApp"
    /\ res' = Returned("XdgApp::exec", XdgApp_exec(AsApp(inst)))
    /\ UNCHANGED <<env, inst, writes, fs>>

Call_XdgApp_sys_config ==
    /\ inst.type = "XdgApp"
    /\ res' = Returned("XdgApp::sys_config", XdgApp_sys_config(env))
    /\ UNCHANGED <<env, inst, writes, fs>>

Call_XdgApp_sys_data ==
    /\ inst.type = "XdgApp"
    /\ res' = Returned("XdgApp::sys_data", XdgApp_sys_data(env))
    /\ UNCHANGED <<env, inst, writes, fs>>

Next ==
    \/ SetVar
    \/ RemoveVar
    \/ Call_new
    \/ Call_new_app
    \/ Call_XdgApp_new
    \/ Call_from_xdg
    \/ Call_home
    \/ Call_cache
    \/ Call_config
    \/ Call_data
    \/ Call_state
    \/ Call_runtime
    \/ Call_exec
    \/ Call_sys_config
    \/ Call_sys_data
    \/ Call_XdgApp_home
    \/ Call_XdgApp_cache
    \/ Call_XdgApp_config
    \/ Call_XdgApp_data
    \/ Call_XdgApp_state
    \/ Call_XdgApp_runtime
    \/ Call_XdgApp_exec
    \/ Call_XdgApp_sys_config
    \/ Call_XdgApp_sys_data

Spec == Init /\ [][Next]_vars

(***************************************************************************)
(* The application layer: the methods of XdgApp that append the            *)
(* application name or a file, in the draft of src/lib.rs and in the       *)
(* draft of src/app.rs.                                                    *)
(***************************************************************************)

\* The relative file names passed to the file methods.
FileNames == { <<"f">>, <<"d", "/", "f">> }

ReturnedFor(op, file, val) == [op |-> op, file |-> file, val |-> val]

\* The public methods of XdgApp in src/app.rs, by kind.
AppDirOp ==
    [Cache |-> "app::XdgApp::app_cache", Config |-> "app::XdgApp::app_config",
     Data |-> "app::XdgApp::app_data", State |-> "app::XdgApp::app_state"]

AppSysDirOp ==
    [Config |-> "app::XdgApp::app_sys_config", Data |-> "app::XdgApp::app_sys_data"]

FileOp ==
    [Cache |-> "app::XdgApp::cache_file", Config |-> "app::XdgApp::config_file",
     Data |-> "app::XdgApp::data_file", State |-> "app::XdgApp::state_file"]

AppFileOp ==
    [Cache |-> "app::XdgApp::app_cache_file", Config |-> "app::XdgApp::app_config_file",
     Data |-> "app::XdgApp::app_data_file", State |-> "app::XdgApp::app_state_file"]

\* XdgApp::sys_config() and XdgApp::sys_data() of src/app.rs: associated
\* functions, called without an instance.
SysDirOp ==
    [Config |-> "app::XdgApp::sys_config", Data |-> "app::XdgApp::sys_data"]

SearchFileOp ==
    [Cache |-> "app::XdgApp::search_cache_file",
     Config |-> "app::XdgApp::search_config_file",
     Data |-> "app::XdgApp::search_data_file",
     State |-> "app::XdgApp::search_state_file"]

SearchAppFileOp ==
    [Cache |-> "app::XdgApp::search_app_cache_file",
     Config |-> "app::XdgApp::search_app_config_file",
     Data |-> "app::XdgApp::search_app_data_file",
     State |-> "app::XdgApp::search_app_state_file"]

Call_app_cache ==
    /\ inst.type = "XdgApp"
    /\ res' = Returned("XdgApp::app_cache", app_cache(AsApp(inst), env))
    /\ UNCHANGED <<env, inst, writes, fs>>

Call_app_config ==
    /\ inst.type = "XdgApp"
    /\ res' = Returned("XdgApp::app_config", app_config(AsApp(inst), env))
    /\ UNCHANGED <<env, inst, writes, fs>>

Call_app_data ==
    /\ inst.type = "XdgApp"
    /\ res' = Returned("XdgApp::app_data", app_data(AsApp(inst), env))
    /\ UNCHANGED <<env, inst, writes, fs>>

Call_app_state ==
    /\ inst.type = "XdgApp"
    /\ res' = Returned("XdgApp::app_state", app_state(AsApp(inst), env))
    /\ UNCHANGED <<env, inst, writes, fs>>

Call_app_sys_config ==
    /\ inst.type = "XdgApp"
    /\ res' = Returned("XdgApp::app_sys_config", app_sys_config(AsApp(inst), env))
    /\ UNCHANGED <<env, inst, writes, fs>>

Call_app_sys_data ==
    /\ inst.type = "XdgApp"
    /\ res' = Returned("XdgApp::app_sys_data", app_sys_data(AsApp(inst), env))
    /\ UNCHANGED <<env, inst, writes, fs>>

\* src/app.rs: app_cache(), app_config(), app_data(), app_state()
Call_get_app_dir_path ==
    /\ inst.type = "XdgApp"
    /\ \E dir \in XdgDir :
          res' = Returned(AppDirOp[dir], get_app_dir_path(AsApp(inst), env, dir))
    /\ UNCHANGED <<env, inst, writes, fs>>

\* src/app.rs: app_sys_config(), app_sys_data()
Call_get_app_sys_dir_paths ==
    /\ inst.type = "XdgApp"
    /\ \E dirs \in XdgSysDirs :
          res' = Returned(AppSysDirOp[dirs], get_app_sys_dir_paths(AsApp(inst), env, dirs))
    /\ UNCHANGED <<env, inst, writes, fs>>

\* src/app.rs: XdgApp::sys_config(), XdgApp::sys_data(), which call the
\* associated functions of Xdg; no instance is involved.
Call_get_sys_dir_paths ==
    /\ \E dirs \in XdgSysDirs :
          res' = Returned(SysDirOp[dirs], get_sys_dir_paths(env, dirs))
    /\ UNCHANGED <<env, inst, writes, fs>>

\* src/app.rs: cache_file(file) .. state_file(file), which call the Xdg
Call_get_file_path ==
    /\ inst.type = "XdgApp"
    /\ \E dir \in XdgDir : \E file \in FileNames :
          res' = ReturnedFor(FileOp[dir], file, get_file_path(inst.xdg, env, dir, file))
    /\ UNCHANGED <<env, inst, writes, fs>>

\* src/app.rs: app_cache_file(file) .. app_state_file(file)
Call_get_app_file_path ==
    /\ inst.type = "XdgApp"
    /\ \E dir \in XdgDir : \E file \in FileNames :
          res' = ReturnedFor(AppFileOp[dir], file,
                             get_app_file_path(AsApp(inst), env, dir, file))
    /\ UNCHANGED <<env, inst, writes, fs>>

NextApp ==
    \/ SetVar
    \/ RemoveVar
    \/ Call_XdgApp_new
    \/ Call_XdgApp_sys_config
    \/ Call_XdgApp_sys_data
    \/ Call_app_cache
    \/ Call_app_config
    \/ Call_app_data
    \/ Call_app_state
    \/ Call_app_sys_config
    \/ Call_app_sys_data
    \/ Call_get_app_dir_path
    \/ Call_get_app_sys_dir_paths
    \/ Call_get_sys_dir_paths

SpecApp == Init /\ [][NextApp]_vars

\* The file methods of XdgApp.
NextFile ==
    \/ SetVar
    \/ RemoveVar
    \/ Call_XdgApp_new
    \/ Call_get_file_path
    \/ Call_get_app_file_path

SpecFile == Init /\ [][NextFile]_vars

(***************************************************************************)
(* Search: an XdgApp constructed with HOME set looks a file up.  A search  *)
(* changes nothing, so the environment and the filesystem it runs in are   *)
(* drawn at the start: the variable of one kind of user directory and the  *)
(* two list variables take any of their sample values.                     *)
(***************************************************************************)

\* The value of HOME the searching instance was constructed with.
SearchHome == <<"/", "h">>

\* The name of the file searched for.
SearchNames == { <<"f">> }

\* The directories of the sample filesystems: the four user directories
\* under SearchHome, the directories the sample values name, the fallbacks
\* of the two system lists.
UsrDir(dir) == join(SearchHome, fallback(dir))
DirA == <<"/", "a">>
DirB == <<"/", "b">>
EtcXdg == sys_fallback("Config")[1]
UsrLocalShare == sys_fallback("Data")[1]
UsrShare == sys_fallback("Data")[2]

\* The candidates of a search in directory d: d/<file> and d/<app>/<file>.
CandidatesIn(d) ==
    {join(d, file) : file \in SearchNames}
        \cup {join(join(d, n), file) : n \in AppNames, file \in SearchNames}

\* The filesystem where the candidates in the directories of D are regular
\* files and those in the directories of X are directories.
Holding(D, X) ==
    [files |-> UNION {CandidatesIn(d) : d \in D},
     dirs |-> UNION {CandidatesIn(d) : d \in X}]

FsValues ==
    { NoFiles,
      Holding({UsrDir("Config"), UsrDir("Data"), DirA, DirB,
               EtcXdg, UsrLocalShare, UsrShare}, {}),
      Holding({UsrDir("Cache"), UsrDir("State"), DirA, DirB}, {}),
      Holding({DirB}, {}),
      Holding({EtcXdg, UsrLocalShare, UsrShare}, {}),
      Holding({DirB}, {DirA}),
      Holding({EtcXdg, UsrShare}, {UsrDir("Config"), UsrDir("Data")}) }

\* An environment entry for key: unset, or set to one of its sample values
\* (for the two list variables, the values of ListValues).
Entries(key) ==
    {Unset} \cup {SetTo(v) : v \in IF key \in {"XDG_CONFIG_DIRS", "XDG_DATA_DIRS"}
                                   THEN ListValues ELSE ValuesOf(key)}

\* The environment with HOME as at construction and the three entries given.
SearchEnv(dir, usr, config_dirs, data_dirs) ==
    [k \in VarNames |->
        CASE k = "HOME" -> SetTo(SearchHome)
          [] k = env_var(dir) -> usr
          [] k = "XDG_CONFIG_DIRS" -> config_dirs
          [] k = "XDG_DATA_DIRS" -> data_dirs
          [] OTHER -> Unset]

InitSearch ==
    /\ \E dir \in XdgDir : \E usr \in Entries(env_var(dir)) :
       \E config_dirs \in Entries("XDG_CONFIG_DIRS") :
       \E data_dirs \in Entries("XDG_DATA_DIRS") :
          env = SearchEnv(dir, usr, config_dirs, data_dirs)
    /\ \E n \in AppNames :
          inst = AppInstance(from_xdg(new_from_string(SearchHome), n))
    /\ res = [op |-> "none"]
    /\ writes = 0
    /\ fs \in FsValues

\* src/app.rs: search_cache_file(file) .. search_state_file(file), which
\* call the Xdg
Call_search_file ==
    /\ inst.type = "XdgApp"
    /\ \E dir \in XdgDir : \E file \in SearchNames :
          res' = ReturnedFor(SearchFileOp[dir], file,
                             search_file(inst.xdg, env, fs, dir, file))
    /\ UNCHANGED <<env, inst, writes, fs>>

\* src/app.rs: search_app_cache_file(file) .. search_app_state_file(file)
Call_search_app_file ==
    /\ inst.type = "XdgApp"
    /\ \E dir \in XdgDir : \E file \in SearchNames :
          res' = ReturnedFor(SearchAppFileOp[dir], file,
                             search_app_file(AsApp(inst), env, fs, dir, file))
    /\ UNCHANGED <<env, inst, writes, fs>>

NextSearch ==
    \/ Call_search_file
    \/ Call_search_app_file

SpecSearch == InitSearch /\ [][NextSearch]_vars

(***************************************************************************)
(* Calls in sequence: one variable is set, changed and removed, and the    *)
(* method that reads it is called in between on one instance.  Here res is *)
(* the log of the calls: the variable, its entry in the environment when   *)
(* the call was made, and what the call returned.                          *)
(***************************************************************************)

\* The number of calls in a log.
MaxCalls == 4

\* The values written: empty, relative, absolute, invalid unicode.
SeqValues == { <<>>, <<"a">>, <<"/", "a">>, <<BAD>> }

\* The variables of the user directories, and the kind each belongs to.
SeqVars ==
    { "XDG_CACHE_HOME", "XDG_CONFIG_HOME", "XDG_DATA_HOME", "XDG_STATE_HOME",
      "XDG_RUNTIME_DIR" }

\* The method of Xdg that reads the variable key, called on the instance.
CallOf(key) ==
    CASE key = "XDG_CACHE_HOME" -> cache(inst.xdg, env)
      [] key = "XDG_CONFIG_HOME" -> config(inst.xdg, env)
      [] key = "XDG_DATA_HOME" -> data(inst.xdg, env)
      [] key = "XDG_STATE_HOME" -> state(inst.xdg, env)
      [] key = "XDG_RUNTIME_DIR" -> runtime(inst.xdg, env)

Called(key, at, val) == [key |-> key, at |-> at, val |-> val]

\* The run is about the variable key: no other variable of SeqVars is set
\* and the calls logged so far are calls of its method.
Observed(key) ==
    /\ \A other \in SeqVars \ {key} : ~env[other].set
    /\ \A i \in 1..Len(res) : res[i].key = key

\* HOME=/h, nothing else set, and an instance from Xdg::new().
InitSeq ==
    /\ env = [k \in VarNames |-> IF k = "HOME" THEN SetTo(SearchHome) ELSE Unset]
    /\ inst = XdgInstance(new([k \in VarNames |->
                                  IF k = "HOME" THEN SetTo(SearchHome) ELSE Unset]).val)
    /\ res = <<>>
    /\ writes = 0
    /\ fs = NoFiles

\* std::env::set_var(key, v) between two calls
Seq_set_var ==
    /\ \E key \in SeqVars : \E v \in SeqValues :
          /\ Observed(key)
          /\ env' = [env EXCEPT ![key] = SetTo(v)]
    /\ UNCHANGED <<inst, res, writes, fs>>

\* std::env::remove_var(key) between two calls
Seq_remove_var ==
    /\ \E key \in SeqVars :
          /\ Observed(key)
          /\ env[key].set
          /\ env' = [env EXCEPT ![key] = Unset]
    /\ UNCHANGED <<inst, res, writes, fs>>

\* xdg.cache(), xdg.config(), xdg.data(), xdg.state(), xdg.runtime()
Seq_call ==
    /\ Len(res) < MaxCalls
    /\ \E key \in SeqVars :
          /\ Observed(key)
          /\ res' = Append(res, Called(key, env[key], CallOf(key)))
    /\ UNCHANGED <<env, inst, writes, fs>>

NextSeq ==
    \/ Seq_set_var
    \/ Seq_remove_var
    \/ Seq_call

SpecSeq == InitSeq /\ [][NextSeq]_vars

(***************************************************************************)
(* Properties.  Each is stated over the result of the last call (res),     *)
(* the environment it was made in (env) and the instance it was made on    *)
(* (inst).  The tables below restate the documented names and suffixes.    *)
(***************************************************************************)

CtorOps == {"Xdg::new", "Xdg::new_app", "XdgApp::new"}

\* The home directory of the instance a constructor returned.
CtorHome == IF res.op = "Xdg::new" THEN home(res.val.val) ELSE XdgApp_home(res.val.val)

HomeSlash == <<"/", "h", "o", "m", "e", "/">>

KindVar ==
    [Cache |-> "XDG_CACHE_HOME", Config |-> "XDG_CONFIG_HOME",
     Data |-> "XDG_DATA_HOME", State |-> "XDG_STATE_HOME"]

KindSuffix ==
    [Cache |-> <<".", "c", "a", "c", "h", "e">>,
     Config |-> <<".", "c", "o", "n", "f", "i", "g">>,
     Data |-> <<".", "l", "o", "c", "a", "l", "/", "s", "h", "a", "r", "e">>,
     State |-> <<".", "l", "o", "c", "a", "l", "/", "s", "t", "a", "t", "e">>]

KindOps ==
    [Cache |-> {"Xdg::cache", "XdgApp::cache"},
     Config |-> {"Xdg::config", "XdgApp::config"},
     Data |-> {"Xdg::data", "XdgApp::data"},
     State |-> {"Xdg::state", "XdgApp::state"}]

RuntimeOps == {"Xdg::runtime", "XdgApp::runtime"}

SysVar == [Config |-> "XDG_CONFIG_DIRS", Data |-> "XDG_DATA_DIRS"]

SysOps ==
    [Config |-> {"Xdg::sys_config", "XdgApp::sys_config"},
     Data |-> {"Xdg::sys_data", "XdgApp::sys_data"}]

UnsetOrEmpty(key) == ~env[key].set \/ env[key].val = <<>>

\* C1: a constructor that succeeds with HOME set returns an instance whose
\* home() is the value of HOME, also when USER is set; with HOME unset and
\* USER set to u, home() is /home/u.
C1_HomeOrder ==
    (res.op \in CtorOps /\ res.val.tag = "Ok") =>
        /\ env["HOME"].set => CtorHome = env["HOME"].val
        /\ (~env["HOME"].set /\ env["USER"].set) =>
                CtorHome = HomeSlash \o env["USER"].val

\* C2: the constructors fail with HomeNotFound when HOME and USER are both
\* unset, and succeed whenever at least one of them is set.
C2_HomeNotFound ==
    res.op \in CtorOps =>
        /\ (~env["HOME"].set /\ ~env["USER"].set) => res.val = Err(HomeNotFound)
        /\ (env["HOME"].set \/ env["USER"].set) => res.val.tag = "Ok"

\* C3: whenever HOME is set, whatever its value, Xdg::new succeeds and
\* home() is that value verbatim (USER plays no part).
C3_HomeVerbatim ==
    (res.op = "Xdg::new" /\ env["HOME"].set) =>
        /\ res.val.tag = "Ok"
        /\ home(res.val.val) = env["HOME"].val

\* Home resolution as documented, for values of HOME and USER that are valid
\* unicode.
HomeResolutionOnUnicode ==
    (/\ res.op \in CtorOps
     /\ env["HOME"].set => IsUnicode(env["HOME"].val)
     /\ env["USER"].set => IsUnicode(env["USER"].val))
    => /\ C1_HomeOrder
       /\ C2_HomeNotFound
       /\ C3_HomeVerbatim

\* The text of h joined with the relative path s.
Joined(h, s) ==
    IF h = <<>> \/ h[Len(h)] = "/" THEN h \o s ELSE h \o <<"/">> \o s

Absolute(p) == p # <<>> /\ p[1] = "/"

\* C4: for every kind of user directory, when its variable is unset or
\* empty, the result is the home of the instance joined with the suffix of
\* the kind.
C4_Fallback ==
    \A k \in XdgDir :
        (res.op \in KindOps[k] /\ UnsetOrEmpty(KindVar[k])) =>
            res.val = Ok(Joined(inst.xdg.home, KindSuffix[k]))

C4_Witness ==
    /\ res.op = "Xdg::config"
    /\ env["XDG_CONFIG_HOME"] = SetTo(<<>>)
    /\ inst.xdg.home = <<"/", "h">>
    /\ res.val = Ok(<<"/", "h", "/", ".", "c", "o", "n", "f", "i", "g">>)

\* C5 as stated: for every kind of user directory and for the runtime
\* directory, a non-empty relative path p in the variable makes the call
\* fail with RelativePath carrying the variable's name and p.
C5_RelativeAsStated ==
    /\ \A k \in XdgDir :
          (/\ res.op \in KindOps[k]
           /\ env[KindVar[k]].set
           /\ env[KindVar[k]].val # <<>>
           /\ ~Absolute(env[KindVar[k]].val))
          => res.val = Err(RelativePath(KindVar[k], env[KindVar[k]].val))
    /\ (/\ res.op \in RuntimeOps
        /\ env["XDG_RUNTIME_DIR"].set
        /\ env["XDG_RUNTIME_DIR"].val # <<>>
        /\ ~Absolute(env["XDG_RUNTIME_DIR"].val))
       => res.val = Err(RelativePath("XDG_RUNTIME_DIR", env["XDG_RUNTIME_DIR"].val))

\* C5 (amended): for every kind of user directory and for the runtime
\* directory, a non-empty, valid-unicode relative path p in the variable
\* makes the call fail with RelativePath carrying the variable's name and
\* p, whatever the home of the instance.
C5_RelativePath ==
    /\ \A k \in XdgDir :
          (/\ res.op \in KindOps[k]
           /\ env[KindVar[k]].set
           /\ env[KindVar[k]].val # <<>>
           /\ IsUnicode(env[KindVar[k]].val)
           /\ ~Absolute(env[KindVar[k]].val))
          => res.val = Err(RelativePath(KindVar[k], env[KindVar[k]].val))
    /\ (/\ res.op \in RuntimeOps
        /\ env["XDG_RUNTIME_DIR"].set
        /\ env["XDG_RUNTIME_DIR"].val # <<>>
        /\ IsUnicode(env["XDG_RUNTIME_DIR"].val)
        /\ ~Absolute(env["XDG_RUNTIME_DIR"].val))
       => res.val = Err(RelativePath("XDG_RUNTIME_DIR", env["XDG_RUNTIME_DIR"].val))

C5_Witness ==
    /\ res.op = "Xdg::state"
    /\ env["XDG_STATE_HOME"] = SetTo(<<"a">>)
    /\ inst.xdg.home = <<"/", "h">>
    /\ res.val = Err([kind |-> "RelativePath", env_var_key |-> "XDG_STATE_HOME",
                      path |-> <<"a">>])

\* C6: for every kind of user directory, the runtime directory and both
\* kinds of system list, a value that is not valid unicode makes the call
\* fail with InvalidUnicode carrying the variable's name and the raw value.
C6_InvalidUnicode ==
    /\ \A k \in XdgDir :
          (/\ res.op \in KindOps[k]
           /\ env[KindVar[k]].set
           /\ ~IsUnicode(env[KindVar[k]].val))
          => res.val = Err(InvalidUnicode(KindVar[k], env[KindVar[k]].val))
    /\ (/\ res.op \in RuntimeOps
        /\ env["XDG_RUNTIME_DIR"].set
        /\ ~IsUnicode(env["XDG_RUNTIME_DIR"].val))
       => res.val = Err(InvalidUnicode("XDG_RUNTIME_DIR", env["XDG_RUNTIME_DIR"].val))
    /\ \A d \in XdgSysDirs :
          (/\ res.op \in SysOps[d]
           /\ env[SysVar[d]].set
           /\ ~IsUnicode(env[SysVar[d]].val))
          => res.val = Err(InvalidUnicode(SysVar[d], env[SysVar[d]].val))

C6_Witness ==
    /\ res.op = "Xdg::sys_data"
    /\ env["XDG_DATA_DIRS"] = SetTo(<<"/", "a", ":", BAD>>)
    /\ res.val = Err([kind |-> "InvalidUnicode", env_var_key |-> "XDG_DATA_DIRS",
                      env_var_val |-> <<"/", "a", ":", BAD>>])

\* C7: for every kind of user directory, a non-empty, valid-unicode,
\* absolute path p in the variable is returned unchanged, whatever the home
\* of the instance.
C7_AbsoluteUnchanged ==
    \A k \in XdgDir :
        (/\ res.op \in KindOps[k]
         /\ env[KindVar[k]].set
         /\ IsUnicode(env[KindVar[k]].val)
         /\ Absolute(env[KindVar[k]].val))
        => res.val = Ok(env[KindVar[k]].val)

C7_Witness ==
    /\ res.op = "Xdg::state"
    /\ env["XDG_STATE_HOME"] = SetTo(<<"/", "a">>)
    /\ inst.xdg.home = <<"/", "h">>
    /\ res.val = Ok(<<"/", "a">>)

\* C8 as stated: runtime() returns Ok(None) when XDG_RUNTIME_DIR is unset or
\* empty, Ok(Some(p)) when it is set to an absolute path p, and otherwise
\* RelativePath or InvalidUnicode as the other user directories do.
C8_RuntimeAsStated ==
    res.op \in RuntimeOps =>
        LET v == env["XDG_RUNTIME_DIR"]
        IN  /\ UnsetOrEmpty("XDG_RUNTIME_DIR") => res.val = Ok(None)
            /\ (v.set /\ Absolute(v.val)) => res.val = Ok(Some(v.val))
            /\ (v.set /\ v.val # <<>> /\ ~Absolute(v.val) /\ IsUnicode(v.val))
                  => res.val = Err(RelativePath("XDG_RUNTIME_DIR", v.val))
            /\ (v.set /\ v.val # <<>> /\ ~Absolute(v.val) /\ ~IsUnicode(v.val))
                  => res.val = Err(InvalidUnicode("XDG_RUNTIME_DIR", v.val))

\* C8 (amended): runtime() returns Ok(None) when XDG_RUNTIME_DIR is unset or
\* empty (never a home-derived path), Ok(Some(p)) when it is set to a
\* valid-unicode absolute path p, RelativePath when it is set to a
\* valid-unicode relative path, and InvalidUnicode when it is set to a value
\* that is not valid unicode.
C8_Runtime ==
    res.op \in RuntimeOps =>
        LET v == env["XDG_RUNTIME_DIR"]
        IN  /\ UnsetOrEmpty("XDG_RUNTIME_DIR") => res.val = Ok(None)
            /\ (v.set /\ Absolute(v.val) /\ IsUnicode(v.val))
                  => res.val = Ok(Some(v.val))
            /\ (v.set /\ v.val # <<>> /\ ~Absolute(v.val) /\ IsUnicode(v.val))
                  => res.val = Err(RelativePath("XDG_RUNTIME_DIR", v.val))
            /\ (v.set /\ ~IsUnicode(v.val))
                  => res.val = Err(InvalidUnicode("XDG_RUNTIME_DIR", v.val))

C8_Witness ==
    /\ res.op = "Xdg::runtime"
    /\ inst.xdg.home = <<"/", "h">>
    /\ env["XDG_RUNTIME_DIR"] = SetTo(<<>>)
    /\ res.val = [tag |-> "Ok", val |-> [some |-> FALSE]]

\* C9: exec() is the home of the instance joined with .local/bin, whatever
\* the XDG variables are set to.
C9_Exec ==
    res.op \in {"Xdg::exec", "XdgApp::exec"} =>
        res.val = Joined(inst.xdg.home,
                         <<".", "l", "o", "c", "a", "l", "/", "b", "i", "n">>)

C9_Witness ==
    /\ res.op = "Xdg::exec"
    /\ inst.xdg.home = <<"/", "h">>
    /\ env["XDG_DATA_HOME"] = SetTo(<<"/", "a">>)
    /\ res.val = <<"/", "h", "/", ".", "l", "o", "c", "a", "l", "/", "b", "i", "n">>

\* C10: when XDG_CONFIG_DIRS is unset or empty sys_config() is [/etc/xdg];
\* when XDG_DATA_DIRS is unset or empty sys_data() is
\* [/usr/local/share, /usr/share], in that order.
C10_SysFallback ==
    /\ (res.op \in SysOps["Config"] /\ UnsetOrEmpty("XDG_CONFIG_DIRS")) =>
          res.val = Ok(<< <<"/", "e", "t", "c", "/", "x", "d", "g">> >>)
    /\ (res.op \in SysOps["Data"] /\ UnsetOrEmpty("XDG_DATA_DIRS")) =>
          res.val = Ok(<< <<"/", "u", "s", "r", "/", "l", "o", "c", "a", "l",
                            "/", "s", "h", "a", "r", "e">>,
                          <<"/", "u", "s", "r", "/", "s", "h", "a", "r", "e">> >>)

C10_Witness ==
    /\ res.op = "Xdg::sys_data"
    /\ env["XDG_DATA_DIRS"] = SetTo(<<>>)
    /\ res.val.tag = "Ok"
    /\ Len(res.val.val) = 2
    /\ res.val.val[1] = <<"/", "u", "s", "r", "/", "l", "o", "c", "a", "l",
                          "/", "s", "h", "a", "r", "e">>

\* The paths of a list written as one value: joined with colons.
RECURSIVE JoinColon(_)
JoinColon(paths) ==
    IF Len(paths) = 0 THEN <<>>
    ELSE IF Len(paths) = 1 THEN paths[1]
    ELSE paths[1] \o <<":">> \o JoinColon(Tail(paths))

NoColon(p) == \A i \in 1..Len(p) : p[i] # ":"

\* A non-empty value all of whose colon-separated segments are absolute: it
\* starts with the root and so does the text after every colon.
AllSegmentsAbsolute(v) ==
    /\ Absolute(v)
    /\ \A i \in 1..Len(v) : v[i] = ":" => (i < Len(v) /\ v[i + 1] = "/")

\* The result is the list of the colon-separated segments of v, in order.
IsListOf(val, v) ==
    /\ val.tag = "Ok"
    /\ JoinColon(val.val) = v
    /\ \A i \in 1..Len(val.val) : NoColon(val.val[i])

\* C11 as stated: when a *_DIRS variable is set to a non-empty list whose
\* segments are all absolute, sys_config()/sys_data() return exactly those
\* segments, one element per segment, in order, duplicates kept.
C11_SysListAsStated ==
    \A d \in XdgSysDirs :
        (/\ res.op \in SysOps[d]
         /\ env[SysVar[d]].set
         /\ AllSegmentsAbsolute(env[SysVar[d]].val))
        => IsListOf(res.val, env[SysVar[d]].val)

\* C11 (amended): when a *_DIRS variable is set to a non-empty, valid-unicode
\* list whose segments are all absolute, sys_config()/sys_data() return
\* exactly those segments, one element per segment, in order, duplicates
\* kept; the filesystem is not consulted.
C11_SysListVerbatim ==
    \A d \in XdgSysDirs :
        (/\ res.op \in SysOps[d]
         /\ env[SysVar[d]].set
         /\ IsUnicode(env[SysVar[d]].val)
         /\ AllSegmentsAbsolute(env[SysVar[d]].val))
        => IsListOf(res.val, env[SysVar[d]].val)

C11_Witness ==
    /\ res.op = "Xdg::sys_config"
    /\ env["XDG_CONFIG_DIRS"] = SetTo(<<"/", "a", ":", "/", "a">>)
    /\ res.val = Ok(<< <<"/", "a">>, <<"/", "a">> >>)

\* The methods that return the application's system-wide directories, in
\* the draft of src/lib.rs and in the draft of src/app.rs.
AppSysOps ==
    [Config |-> {"XdgApp::app_sys_config", "app::XdgApp::app_sys_config"},
     Data |-> {"XdgApp::app_sys_data", "app::XdgApp::app_sys_data"}]

\* The positions where the segments of a colon-separated value start.
SegStarts(v) == {1} \cup {i + 1 : i \in {j \in 1..Len(v) : v[j] = ":"}}

\* The segment of v that starts at s is relative: it is empty or does not
\* start with the root.
RelativeAt(v, s) == s > Len(v) \/ v[s] # "/"

HasRelativeSegment(v) == \E s \in SegStarts(v) : RelativeAt(v, s)

\* The first relative segment of v, in list order.
FirstRelativeSegment(v) ==
    LET s == CHOOSE s \in SegStarts(v) :
                /\ RelativeAt(v, s)
                /\ \A t \in SegStarts(v) : RelativeAt(v, t) => s <= t
        ends == {j \in s..Len(v) : v[j] = ":"} \cup {Len(v) + 1}
        e == CHOOSE e \in ends : \A x \in ends : e <= x
    IN  SubSeq(v, s, e - 1)

\* C12 as stated: when a *_DIRS variable holds a list with a relative
\* segment, sys_config()/sys_data() and app_sys_config()/app_sys_data() fail
\* with RelativePath carrying the variable and the first relative segment.
C12_FirstRelativeAsStated ==
    \A d \in XdgSysDirs :
        (/\ res.op \in SysOps[d] \cup AppSysOps[d]
         /\ env[SysVar[d]].set
         /\ env[SysVar[d]].val # <<>>
         /\ HasRelativeSegment(env[SysVar[d]].val))
        => res.val = Err(RelativePath(SysVar[d], FirstRelativeSegment(env[SysVar[d]].val)))

\* C12 (amended): when a *_DIRS variable holds a non-empty, valid-unicode
\* list with a relative segment, sys_config()/sys_data() and
\* app_sys_config()/app_sys_data() fail with RelativePath carrying the
\* variable and the first relative segment in list order; no list is
\* returned.
C12_FirstRelative ==
    \A d \in XdgSysDirs :
        (/\ res.op \in SysOps[d] \cup AppSysOps[d]
         /\ env[SysVar[d]].set
         /\ env[SysVar[d]].val # <<>>
         /\ IsUnicode(env[SysVar[d]].val)
         /\ HasRelativeSegment(env[SysVar[d]].val))
        => res.val = Err(RelativePath(SysVar[d], FirstRelativeSegment(env[SysVar[d]].val)))

C12_Witness ==
    /\ res.op = "XdgApp::app_sys_data"
    /\ env["XDG_DATA_DIRS"] = SetTo(<<"/", "a", ":", "b", ":", "c">>)
    /\ res.val = Err([kind |-> "RelativePath", env_var_key |-> "XDG_DATA_DIRS",
                      path |-> <<"b">>])

\* The methods that return the application's user directory of a kind, in
\* the draft of src/lib.rs and in the draft of src/app.rs.
AppKindOps ==
    [Cache |-> {"XdgApp::app_cache", "app::XdgApp::app_cache"},
     Config |-> {"XdgApp::app_config", "app::XdgApp::app_config"},
     Data |-> {"XdgApp::app_data", "app::XdgApp::app_data"},
     State |-> {"XdgApp::app_state", "app::XdgApp::app_state"}]

\* C13: for every kind k, app_k() succeeds exactly when k() succeeds, and
\* is then k() with the application name as the last segment; when k()
\* fails, app_k() fails with the same error.
C13_AppDir ==
    \A k \in XdgDir :
        res.op \in AppKindOps[k] =>
            LET base == get_path(inst.xdg, env, k)
            IN  /\ base.tag = "Ok" => res.val = Ok(Joined(base.val, inst.name))
                /\ base.tag = "Err" => res.val = base

C13_Witness ==
    /\ res.op = "XdgApp::app_state"
    /\ env["XDG_STATE_HOME"] = SetTo(<<"/", "a">>)
    /\ inst.name = <<"n">>
    /\ res.val = Ok(<<"/", "a", "/", "n">>)

\* C14: for both system kinds, app_sys_config()/app_sys_data() return a list
\* of the same length and order as sys_config()/sys_data(), each directory
\* with the application name appended, for the list of the variable and for
\* the fallback list; when the list fails to resolve, the same error is
\* returned.
C14_AppSysDirs ==
    \A d \in XdgSysDirs :
        res.op \in AppSysOps[d] =>
            LET base == get_sys_paths(env, d)
            IN  /\ base.tag = "Ok" =>
                      /\ res.val.tag = "Ok"
                      /\ Len(res.val.val) = Len(base.val)
                      /\ \A i \in 1..Len(base.val) :
                            res.val.val[i] = Joined(base.val[i], inst.name)
                /\ base.tag = "Err" => res.val = base

C14_Witness ==
    /\ res.op = "XdgApp::app_sys_config"
    /\ env["XDG_CONFIG_DIRS"] = SetTo(<<"/", "a", ":", "/", "b">>)
    /\ inst.name = <<"n">>
    /\ res.val = Ok(<< <<"/", "a", "/", "n">>, <<"/", "b", "/", "n">> >>)

\* C15: for every kind k and relative file name f, k_file(f) is k() joined
\* with f and app_k_file(f) is k() joined with the application name and then
\* f; when k() fails both fail with the error of k().  Neither reads the
\* filesystem.
C15_FilePaths ==
    \A k \in XdgDir :
        LET base == get_path(inst.xdg, env, k)
        IN  /\ res.op = FileOp[k] =>
                  /\ base.tag = "Ok" => res.val = Ok(Joined(base.val, res.file))
                  /\ base.tag = "Err" => res.val = base
            /\ res.op = AppFileOp[k] =>
                  /\ base.tag = "Ok" =>
                        res.val = Ok(Joined(Joined(base.val, inst.name), res.file))
                  /\ base.tag = "Err" => res.val = base

C15_Witness ==
    /\ res.op = "app::XdgApp::app_config_file"
    /\ res.file = <<"d", "/", "f">>
    /\ inst.xdg.home = <<"/", "h">>
    /\ inst.name = <<"n">>
    /\ ~env["XDG_CONFIG_HOME"].set
    /\ res.val = Ok(<<"/", "h", "/", ".", "c", "o", "n", "f", "i", "g", "/", "n",
                      "/", "d", "/", "f">>)

\* The user directory of kind k and the system list of kind d as the base
\* methods resolve them in the environment of the search.
SearchBase(k) == get_path(inst.xdg, env, k)
SearchSysList(d) == get_sys_paths(env, d)

\* The candidate in directory p: p/<name>, or p/<app>/<name> for the
\* methods of the application.
Candidate(p, app) ==
    IF app THEN Joined(Joined(p, inst.name), res.file) ELSE Joined(p, res.file)

\* The system-wide candidates of kind d, in the order of the list.
SysCandidates(d, app) ==
    [i \in 1..Len(SearchSysList(d).val) |-> Candidate(SearchSysList(d).val[i], app)]

\* The file is a regular file in the user-specific candidate of kind k and
\* in at least one system-wide candidate.
InUsrAndSys(k, app) ==
    /\ SearchBase(k).tag = "Ok"
    /\ Candidate(SearchBase(k).val, app) \in fs.files
    /\ SearchSysList(k).tag = "Ok"
    /\ \E i \in 1..Len(SysCandidates(k, app)) : SysCandidates(k, app)[i] \in fs.files

\* C16: for Config and Data, when the file is a regular file both in the
\* user-specific candidate and in one or more system-wide candidates,
\* search_<kind>_file and search_app_<kind>_file return the user-specific
\* path.
C16_UserOverSystem ==
    \A k \in XdgSysDirs :
        /\ (res.op = SearchFileOp[k] /\ InUsrAndSys(k, FALSE)) =>
              res.val = Ok(Some(Candidate(SearchBase(k).val, FALSE)))
        /\ (res.op = SearchAppFileOp[k] /\ InUsrAndSys(k, TRUE)) =>
              res.val = Ok(Some(Candidate(SearchBase(k).val, TRUE)))

C16_Witness ==
    /\ res.op = "app::XdgApp::search_app_config_file"
    /\ ~env["XDG_CONFIG_HOME"].set
    /\ env["XDG_CONFIG_DIRS"] = SetTo(<<"/", "a", ":", "/", "b">>)
    /\ <<"/", "a", "/", "n", "/", "f">> \in fs.files
    /\ <<"/", "h", "/", ".", "c", "o", "n", "f", "i", "g", "/", "n", "/", "f">> \in fs.files
    /\ res.val = Ok(Some(<<"/", "h", "/", ".", "c", "o", "n", "f", "i", "g",
                           "/", "n", "/", "f">>))

\* C17: for Config and Data, when the user directory resolves, the file is
\* not a regular file in the user-specific candidate and the system list
\* resolves (the list of the variable, or the fallback list when the
\* variable is unset or empty), search_app_config_file and
\* search_app_data_file return the candidate of the earliest entry of the
\* list that is a regular file, whatever later entries hold.
C17_EarliestSystemEntry ==
    \A k \in XdgSysDirs :
        (/\ res.op = SearchAppFileOp[k]
         /\ SearchBase(k).tag = "Ok"
         /\ Candidate(SearchBase(k).val, TRUE) \notin fs.files
         /\ SearchSysList(k).tag = "Ok")
        => \A i \in 1..Len(SysCandidates(k, TRUE)) :
              (/\ SysCandidates(k, TRUE)[i] \in fs.files
               /\ \A m \in 1..(i - 1) : SysCandidates(k, TRUE)[m] \notin fs.files)
              => res.val = Ok(Some(SysCandidates(k, TRUE)[i]))

C17_Witness ==
    /\ res.op = "app::XdgApp::search_app_data_file"
    /\ ~env["XDG_DATA_HOME"].set
    /\ env["XDG_DATA_DIRS"] = SetTo(<<"/", "a", ":", "/", "b">>)
    /\ <<"/", "h", "/", ".", "l", "o", "c", "a", "l", "/", "s", "h", "a", "r", "e",
         "/", "n", "/", "f">> \notin fs.files
    /\ <<"/", "a", "/", "n", "/", "f">> \in fs.files
    /\ <<"/", "b", "/", "n", "/", "f">> \in fs.files
    /\ res.val = Ok(Some(<<"/", "a", "/", "n", "/", "f">>))

\* C18: search_app_config_file and search_app_data_file return an error
\* when the file is not found in the user-specific candidate and the list
\* variable of the kind is set with a relative entry.
C18_RelativeEntryIsError ==
    \A k \in XdgSysDirs :
        (/\ res.op = SearchAppFileOp[k]
         /\ SearchBase(k).tag = "Ok"
         /\ Candidate(SearchBase(k).val, TRUE) \notin fs.files
         /\ env[SysVar[k]].set
         /\ env[SysVar[k]].val # <<>>
         /\ HasRelativeSegment(env[SysVar[k]].val))
        => res.val.tag = "Err"

\* The variables a search of kind k reads are well formed: each is unset,
\* empty, or valid unicode naming absolute paths only.
WellFormedUsr(k) ==
    \/ UnsetOrEmpty(KindVar[k])
    \/ IsUnicode(env[KindVar[k]].val) /\ Absolute(env[KindVar[k]].val)

WellFormedSys(d) ==
    \/ UnsetOrEmpty(SysVar[d])
    \/ IsUnicode(env[SysVar[d]].val) /\ AllSegmentsAbsolute(env[SysVar[d]].val)

WellFormed(k) == WellFormedUsr(k) /\ (k \in XdgSysDirs => WellFormedSys(k))

\* The candidates of search_app_<k>_file in a well-formed environment.
AppCandidates(k) ==
    {Candidate(SearchBase(k).val, TRUE)}
        \cup IF k \in XdgSysDirs
             THEN {SysCandidates(k, TRUE)[i] : i \in 1..Len(SysCandidates(k, TRUE))}
             ELSE {}

\* In a well-formed environment search_app_<kind>_file returns no error,
\* Some(p) only for a candidate p that is a regular file, and None exactly
\* when no candidate is a regular file.
SearchOnWellFormed ==
    \A k \in XdgDir :
        (res.op = SearchAppFileOp[k] /\ WellFormed(k)) =>
            /\ res.val.tag = "Ok"
            /\ res.val.val.some =>
                  /\ res.val.val.val \in AppCandidates(k)
                  /\ res.val.val.val \in fs.files
            /\ ~res.val.val.some <=> AppCandidates(k) \cap fs.files = {}

\* C19: in a well-formed environment search_app_<kind>_file returns Some(p)
\* only for a candidate p that is a regular file and None, never an error,
\* exactly when no candidate is a regular file; and None is the outcome of
\* a file that is not found, never of a malformed environment.
C19_FoundNotFoundMalformed ==
    /\ SearchOnWellFormed
    /\ \A k \in XdgDir :
          (res.op = SearchAppFileOp[k] /\ res.val = Ok(None)) => WellFormed(k)

\* C20: search_app_cache_file and search_app_state_file look at the
\* user-specific candidate only: the result is the error of the user
\* directory, or Some(candidate) when the candidate is a regular file, or
\* None, whatever XDG_CONFIG_DIRS, XDG_DATA_DIRS and the system directories
\* hold.
C20_CacheStateUserOnly ==
    \A k \in XdgDir \ XdgSysDirs :
        res.op = SearchAppFileOp[k] =>
            res.val = IF SearchBase(k).tag = "Err" THEN SearchBase(k)
                      ELSE IF Candidate(SearchBase(k).val, TRUE) \in fs.files
                      THEN Ok(Some(Candidate(SearchBase(k).val, TRUE)))
                      ELSE Ok(None)

C20_Witness ==
    /\ res.op = "app::XdgApp::search_app_cache_file"
    /\ ~env["XDG_CACHE_HOME"].set
    /\ env["XDG_CONFIG_DIRS"] = SetTo(<<"/", "a", ":", BAD>>)
    /\ env["XDG_DATA_DIRS"] = SetTo(<<"/", "a", ":", "b">>)
    /\ <<"/", "a", "/", "n", "/", "f">> \in fs.files
    /\ <<"/", "h", "/", ".", "c", "a", "c", "h", "e", "/", "n", "/", "f">> \notin fs.files
    /\ res.val = [tag |-> "Ok", val |-> [some |-> FALSE]]

(***************************************************************************)
(* Properties of the resolver as a whole                                   *)
(***************************************************************************)

\* The values of a table of method names.
Range(table) == {table[k] : k \in DOMAIN table}

\* The methods by the shape of what they return: a path, Result<path>,
\* Result<list of paths>, Result<Option<path>>.
ExecOps == {"Xdg::exec", "XdgApp::exec"}

PathResultOps ==
    UNION Range(KindOps) \cup UNION Range(AppKindOps)
        \cup Range(FileOp) \cup Range(AppFileOp)

ListResultOps == UNION Range(SysOps) \cup UNION Range(AppSysOps)

OptionResultOps ==
    RuntimeOps \cup Range(SearchFileOp) \cup Range(SearchAppFileOp)

\* C21: every path a successful resolution returns (a user directory, the
\* runtime directory, the executable directory, each entry of a system
\* list, the application and file variants, a search hit) is absolute,
\* whatever the environment the instance was constructed in.
C21_AllAbsolute ==
    /\ res.op \in ExecOps => Absolute(res.val)
    /\ (res.op \in PathResultOps /\ res.val.tag = "Ok") => Absolute(res.val.val)
    /\ (res.op \in ListResultOps /\ res.val.tag = "Ok") =>
            \A i \in 1..Len(res.val.val) : Absolute(res.val.val[i])
    /\ (res.op \in OptionResultOps /\ res.val.tag = "Ok" /\ res.val.val.some) =>
            Absolute(res.val.val.val)

\* Every returned path is absolute on an instance whose home is absolute.
AbsoluteOnAbsoluteHome == Absolute(inst.xdg.home) => C21_AllAbsolute

HomeOps == {"Xdg::home", "XdgApp::home"}

\* The calls that return an instance.
InstanceOps == CtorOps \cup {"XdgApp::from_xdg"}

\* C22: the home of an instance is fixed when it is constructed.  A step
\* that is not a constructor call (a write to the environment, HOME and
\* USER included, or a method call) leaves the instance as it is; home(),
\* exec() and the fallback of each kind return the home the instance
\* already had before the step; a constructor called after the writes
\* returns an instance with the home the environment now gives.
C22_HomeFixed ==
    [][ /\ res'.op \notin InstanceOps => inst' = inst
        /\ res'.op \in HomeOps => res'.val = inst.xdg.home
        /\ res'.op \in ExecOps =>
              res'.val = Joined(inst.xdg.home,
                                <<".", "l", "o", "c", "a", "l", "/", "b", "i", "n">>)
        /\ \A k \in XdgDir :
              (res'.op \in KindOps[k] /\ UnsetOrEmpty(KindVar[k])) =>
                  res'.val = Ok(Joined(inst.xdg.home, KindSuffix[k]))
        /\ res'.op = "XdgApp::from_xdg" => inst'.xdg = inst.xdg
        /\ (res'.op \in CtorOps /\ res'.val.tag = "Ok"
                /\ env["HOME"].set /\ IsUnicode(env["HOME"].val)) =>
              inst'.xdg.home = env["HOME"].val
      ]_vars

\* home() on an instance constructed with HOME=/h, called after HOME was
\* set to another value.
C22_Witness ==
    /\ res.op = "Xdg::home"
    /\ res.val = <<"/", "h">>
    /\ env["HOME"] = SetTo(<<"a">>)

\* The suffix of the kind that the variable key belongs to.
VarSuffix ==
    [XDG_CACHE_HOME |-> KindSuffix["Cache"], XDG_CONFIG_HOME |-> KindSuffix["Config"],
     XDG_DATA_HOME |-> KindSuffix["Data"], XDG_STATE_HOME |-> KindSuffix["State"]]

\* val is the result that the entry `at` of the variable key determines on
\* an instance whose home is h.
Determined(key, at, h, val) ==
    IF ~at.set \/ at.val = <<>>
    THEN val = IF key = "XDG_RUNTIME_DIR" THEN Ok(None)
               ELSE Ok(Joined(h, VarSuffix[key]))
    ELSE IF ~IsUnicode(at.val) THEN val = Err(InvalidUnicode(key, at.val))
    ELSE IF ~Absolute(at.val) THEN val = Err(RelativePath(key, at.val))
    ELSE val = IF key = "XDG_RUNTIME_DIR" THEN Ok(Some(at.val)) ELSE Ok(at.val)

\* C23: no caching.  Whatever was set, changed or removed between the calls
\* on an instance, every call in the log returned the result determined by
\* the entry of its variable at the time of that call: no earlier result
\* or error sticks.
C23_NoCaching ==
    \A i \in 1..Len(res) :
        Determined(res[i].key, res[i].at, inst.xdg.home, res[i].val)

\* config() called four times, with XDG_CONFIG_HOME absolute, then empty,
\* then relative, then absolute again: path, fallback, error, path.
C23_Witness ==
    /\ Len(res) = 4
    /\ \A i \in 1..4 : res[i].key = "XDG_CONFIG_HOME"
    /\ res[1].val = Ok(<<"/", "a">>)
    /\ res[2].at = SetTo(<<>>)
    /\ res[2].val = Ok(<<"/", "h", "/", ".", "c", "o", "n", "f", "i", "g">>)
    /\ res[3].val = Err([kind |-> "RelativePath", env_var_key |-> "XDG_CONFIG_HOME",
                         path |-> <<"a">>])
    /\ res[4].val = Ok(<<"/", "a">>)

\* The step is a call of the method, with the file argument if it has one,
\* whose result res already holds: the same call made a second time, the
\* environment not having changed in between.
SameCallAgain ==
    /\ res.op # "none"
    /\ res'.op = res.op
    /\ "file" \in DOMAIN res => res'.file = res.file

\* C24: idempotence.  A method called a second time on the same instance in
\* an unchanged environment (and filesystem) returns what it returned the
\* first time, success or error; and a call of a method changes neither
\* the instance, nor the environment, nor the filesystem.
C24_Idempotent ==
    [][ /\ SameCallAgain => res'.val = res.val
        /\ res'.op \notin InstanceOps \cup {"none"} =>
              (inst' = inst /\ env' = env /\ fs' = fs)
      ]_vars

\* cache() has returned an error, and may be called again.
C24_Witness ==
    /\ res.op = "Xdg::cache"
    /\ res.val.tag = "Err"
    /\ env["XDG_CACHE_HOME"] = SetTo(<<"a">>)

\* The environment with every variable but key removed.
Only(key) == [k \in VarNames |-> IF k = key THEN env[k] ELSE Unset]

\* The entry of the variable key is malformed: set to a value that is not
\* valid unicode, or to a non-empty relative path.
Malformed(key) ==
    /\ env[key].set
    /\ env[key].val # <<>>
    /\ ~IsUnicode(env[key].val) \/ ~Absolute(env[key].val)

\* C25: the result of resolving a kind depends only on the kind's own
\* variable and on the home of the instance: it is the result the same
\* instance gives when every other variable is removed.  So a call of a
\* kind fails only when that kind's own variable is malformed, with an
\* error that names that variable, whatever the other variables hold.
C25_ErrorIsolation ==
    /\ \A k \in XdgDir :
          res.op \in KindOps[k] =>
              /\ res.val = get_path(inst.xdg, Only(KindVar[k]), k)
              /\ res.val.tag = "Err" =>
                    (Malformed(KindVar[k]) /\ res.val.err.env_var_key = KindVar[k])
    /\ res.op \in RuntimeOps =>
          /\ res.val = runtime(inst.xdg, Only("XDG_RUNTIME_DIR"))
          /\ res.val.tag = "Err" => Malformed("XDG_RUNTIME_DIR")
    /\ \A d \in XdgSysDirs :
          res.op \in SysOps[d] =>
              /\ res.val = get_sys_paths(Only(SysVar[d]), d)
              /\ res.val.tag = "Err" => res.val.err.env_var_key = SysVar[d]
    /\ res.op \in ExecOps => res.val = exec(inst.xdg)

\* config() succeeds with the fallback while XDG_DATA_HOME is relative.
C25_Witness ==
    /\ res.op = "Xdg::config"
    /\ env["XDG_DATA_HOME"] = SetTo(<<"a">>)
    /\ inst.xdg.home = <<"/", "h">>
    /\ res.val = Ok(<<"/", "h", "/", ".", "c", "o", "n", "f", "i", "g">>)

\* The environment with HOME and USER removed.
Homeless == [k \in VarNames |-> IF k \in {"HOME", "USER"} THEN Unset ELSE env[k]]

\* C26: sys_config() and sys_data() do not need a home directory.  Called
\* on an instance (src/lib.rs) or as associated functions (src/app.rs),
\* they return what they return with HOME and USER removed, and they never
\* fail with HomeNotFound, also when neither HOME nor USER is set.
C26_SysWithoutHome ==
    \A d \in XdgSysDirs :
        /\ res.op \in SysOps[d] =>
              /\ res.val = get_sys_paths(Homeless, d)
              /\ res.val # Err(HomeNotFound)
        /\ res.op = SysDirOp[d] =>
              /\ res.val = get_sys_dir_paths(Homeless, d)
              /\ res.val # Err(HomeNotFound)

\* XdgApp::sys_data() answered with neither HOME nor USER set and no
\* instance constructed.
C26_Witness ==
    /\ res.op = "app::XdgApp::sys_data"
    /\ ~env["HOME"].set
    /\ ~env["USER"].set
    /\ inst.type = "none"
    /\ env["XDG_DATA_DIRS"] = SetTo(<<"/", "a", ":", "/", "b">>)
    /\ res.val = Ok(<< <<"/", "a">>, <<"/", "b">> >>)

\* The calls that return a Result.
Fallible == res.op \notin ExecOps \cup HomeOps \cup {"none"}

\* C27: the errors are of three kinds.  A call that fails returns
\* HomeNotFound, RelativePath or InvalidUnicode; a constructor fails with
\* HomeNotFound only, and a method called on an instance never does,
\* whatever the environment has become since the instance was constructed.
C27_ClosedTaxonomy ==
    (Fallible /\ res.val.tag = "Err") =>
        /\ res.val.err.kind \in {"HomeNotFound", "RelativePath", "InvalidUnicode"}
        /\ res.val.err.kind = "HomeNotFound" <=> res.op \in CtorOps

\* cache() called on an instance after HOME was removed, USER not set.
C27_Witness ==
    /\ res.op = "Xdg::cache"
    /\ inst.xdg.home = <<"/", "h">>
    /\ ~env["HOME"].set
    /\ ~env["USER"].set
    /\ res.val = Ok(<<"/", "h", "/", ".", "c", "a", "c", "h", "e">>)

\* The entries of the list variable of kind d, as written.
SysEntries(d) == split(env[SysVar[d]].val)

\* C28: the search stops at the first hit.  For Config and Data, when the
\* user-specific candidate is a regular file, search_app_<kind>_file
\* returns it whatever the list variable holds, a malformed value
\* included; and when the hit is the candidate of an entry of the list
\* (read as valid unicode, the entries before it absolute and without the
\* file), that candidate is returned whatever the entries after it are,
\* relative ones included.
C28_ShortCircuit ==
    \A k \in XdgSysDirs :
        (res.op = SearchAppFileOp[k] /\ SearchBase(k).tag = "Ok") =>
            /\ Candidate(SearchBase(k).val, TRUE) \in fs.files =>
                  res.val = Ok(Some(Candidate(SearchBase(k).val, TRUE)))
            /\ (/\ Candidate(SearchBase(k).val, TRUE) \notin fs.files
                /\ env[SysVar[k]].set
                /\ env[SysVar[k]].val # <<>>
                /\ IsUnicode(env[SysVar[k]].val))
               => \A i \in 1..Len(SysEntries(k)) :
                     (/\ Absolute(SysEntries(k)[i])
                      /\ Candidate(SysEntries(k)[i], TRUE) \in fs.files
                      /\ \A m \in 1..(i - 1) :
                            /\ Absolute(SysEntries(k)[m])
                            /\ Candidate(SysEntries(k)[m], TRUE) \notin fs.files)
                     => res.val = Ok(Some(Candidate(SysEntries(k)[i], TRUE)))

\* The user-specific candidate is returned while XDG_CONFIG_DIRS is not
\* valid unicode.
C28_Witness ==
    /\ res.op = "app::XdgApp::search_app_config_file"
    /\ ~env["XDG_CONFIG_HOME"].set
    /\ env["XDG_CONFIG_DIRS"] = SetTo(<<"/", BAD>>)
    /\ res.val = Ok(Some(<<"/", "h", "/", ".", "c", "o", "n", "f", "i", "g",
                           "/", "n", "/", "f">>))

\* The candidate of the first entry is returned while the second entry is
\* relative.
ShortCircuitInList ==
    /\ res.op = "app::XdgApp::search_app_data_file"
    /\ env["XDG_DATA_DIRS"] = SetTo(<<"/", "a", ":", "b">>)
    /\ res.val = Ok(Some(<<"/", "a", "/", "n", "/", "f">>))

\* The candidates of search_app_<k>_file in the order they are looked up,
\* in a well-formed environment.
AppCandidateList(k) ==
    <<Candidate(SearchBase(k).val, TRUE)>>
        \o IF k \in XdgSysDirs THEN SysCandidates(k, TRUE) ELSE <<>>

\* C29: a hit is a regular file.  In a well-formed environment
\* search_app_<kind>_file returns the first candidate, in order, that is a
\* regular file, passing over the candidates that are missing or are
\* directories, and Ok(None) when no candidate is a regular file; what it
\* returns is never a directory.
C29_RegularFileOnly ==
    \A k \in XdgDir :
        (res.op = SearchAppFileOp[k] /\ WellFormed(k)) =>
            /\ \A i \in 1..Len(AppCandidateList(k)) :
                  (/\ AppCandidateList(k)[i] \in fs.files
                   /\ \A m \in 1..(i - 1) : AppCandidateList(k)[m] \notin fs.files)
                  => res.val = Ok(Some(AppCandidateList(k)[i]))
            /\ (\A i \in 1..Len(AppCandidateList(k)) :
                    AppCandidateList(k)[i] \notin fs.files)
                  => res.val = Ok(None)
            /\ (res.val.tag = "Ok" /\ res.val.val.some) =>
                  res.val.val.val \notin fs.dirs

\* The candidate under /a is a directory and the one under /b a regular
\* file: the search returns the one under /b.
C29_Witness ==
    /\ res.op = "app::XdgApp::search_app_config_file"
    /\ ~env["XDG_CONFIG_HOME"].set
    /\ env["XDG_CONFIG_DIRS"] = SetTo(<<"/", "a", ":", "/", "b">>)
    /\ <<"/", "a", "/", "n", "/", "f">> \in fs.dirs
    /\ <<"/", "b", "/", "n", "/", "f">> \in fs.files
    /\ res.val = Ok(Some(<<"/", "b", "/", "n", "/", "f">>))

\* Every candidate is missing or a directory: the search returns None.
NoneAmongDirectories ==
    /\ res.op = "app::XdgApp::search_app_data_file"
    /\ ~env["XDG_DATA_HOME"].set
    /\ env["XDG_DATA_DIRS"] = SetTo(<<"/", "a">>)
    /\ <<"/", "a", "/", "n", "/", "f">> \in fs.dirs
    /\ res.val = Ok(None)

\* The value v has an empty segment: it starts or ends with a colon, or has
\* two colons in a row.
HasEmptySegment(v) ==
    \E s \in SegStarts(v) : s > Len(v) \/ v[s] = ":"

AllSysOps ==
    [Config |-> SysOps["Config"] \cup AppSysOps["Config"] \cup {SysDirOp["Config"]},
     Data |-> SysOps["Data"] \cup AppSysOps["Data"] \cup {SysDirOp["Data"]}]

\* C30 as stated: when a *_DIRS variable holds a non-empty value with an
\* empty segment, sys_config()/sys_data() and app_sys_config()/
\* app_sys_data() fail with RelativePath carrying the variable and the
\* empty path.
C30_EmptySegmentAsStated ==
    \A d \in XdgSysDirs :
        (/\ res.op \in AllSysOps[d]
         /\ env[SysVar[d]].set
         /\ env[SysVar[d]].val # <<>>
         /\ HasEmptySegment(env[SysVar[d]].val))
        => res.val = Err(RelativePath(SysVar[d], <<>>))

\* C30 (amended): when a *_DIRS variable holds a non-empty, valid-unicode
\* value with an empty segment and no other relative segment comes before
\* it, sys_config()/sys_data() and app_sys_config()/app_sys_data() fail
\* with RelativePath carrying the variable and the empty path: the empty
\* segment is not skipped.
C30_EmptySegmentIsRelative ==
    \A d \in XdgSysDirs :
        (/\ res.op \in AllSysOps[d]
         /\ env[SysVar[d]].set
         /\ env[SysVar[d]].val # <<>>
         /\ IsUnicode(env[SysVar[d]].val)
         /\ HasEmptySegment(env[SysVar[d]].val)
         /\ FirstRelativeSegment(env[SysVar[d]].val) = <<>>)
        => res.val = Err(RelativePath(SysVar[d], <<>>))

\* app_sys_config() of src/app.rs on /a::/b.
C30_Witness ==
    /\ res.op = "app::XdgApp::app_sys_config"
    /\ env["XDG_CONFIG_DIRS"] = SetTo(<<"/", "a", ":", ":", "/", "b">>)
    /\ res.val = Err([kind |-> "RelativePath", env_var_key |-> "XDG_CONFIG_DIRS",
                      path |-> <<>>])

\* sys_data() of src/lib.rs on a value with a trailing colon.
EmptySegmentAtEnd ==
    /\ res.op = "XdgApp::sys_data"
    /\ env["XDG_DATA_DIRS"] = SetTo(<<"/", "a", ":">>)
    /\ res.val = Err([kind |-> "RelativePath", env_var_key |-> "XDG_DATA_DIRS",
                      path |-> <<>>])
====
